---- MODULE Spec2Model ----
(***************************************************************************)
(* A model of the resilient email service (email-service.js, listed in     *)
(* src/README.md from line 381): EmailService with its RateLimiter,        *)
(* CircuitBreaker, EmailQueue and the processQueue drain worker.           *)
(*                                                                         *)
(* JavaScript runs one callback at a time, so every action below is the    *)
(* code that runs between two suspension points (an await or a timer).     *)
(* Time is Date.now() in milliseconds.  The timestamp fields of the status *)
(* and result objects are written but never read by the service and are    *)
(* left out of the records.                                                *)
(***************************************************************************)
EXTENDS Integers, Sequences, FiniteSets, TLC

(***************************************************************************)
(* Bounds of the model.                                                    *)
(***************************************************************************)
MaxCalls == 2          \* sendEmail calls explored
MaxTicks == 2          \* the clock advances by QueueInterval this often,
MaxJumps == 1          \* and by the breaker timeout this often
MaxRetriesOption == 1  \* options.maxRetries ranges over 0..MaxRetriesOption
MaxProviders == 2      \* options.providers has 0..MaxProviders entries
RandomSteps == 2       \* Math.random() ranges over r / RandomSteps
OptBaseDelay == 1000   \* options.baseDelay
OptMaxDelay == 1000    \* options.maxDelay
OptMaxRequests == 1    \* options.rateLimit.maxRequests
OptWindowMs == 1000    \* options.rateLimit.windowMs
MaxAttempt == 5        \* calculateBackoffDelay is asked for attempts 0..MaxAttempt

(***************************************************************************)
(* Program constants.                                                      *)
(***************************************************************************)
DefaultMaxRetries == 3
DefaultBaseDelay == 1000
DefaultMaxDelay == 30000
DefaultMaxRequests == 100
DefaultWindowMs == 60000
DefaultThreshold == 5
DefaultTimeout == 60000
QueueInterval == 1000

EmailStatus ==
  [PENDING |-> "pending", SENT |-> "sent", FAILED |-> "failed",
   RETRYING |-> "retrying", QUEUED |-> "queued"]

CircuitState == [CLOSED |-> "closed", OPEN |-> "open", HALF_OPEN |-> "half_open"]

BreakerOpenMessage == "Circuit breaker is OPEN"

\* the value a Map yields for a missing key, and an unset variable
Absent == [status |-> "absent"]
Undefined == "undefined"

ProviderNames == [i \in 1..MaxProviders |-> "Provider" \o ToString(i)]

\* MockEmailProvider.sendEmail: the error a provider raises
ProviderError(name) == name \o " provider failed to send email"

\* a || b on numbers: 0 is falsy
OrDefault(value, default) == IF value = 0 THEN default ELSE value

Min(a, b) == IF a < b THEN a ELSE b

RECURSIVE Pow2(_)
Pow2(n) == IF n = 0 THEN 1 ELSE 2 * Pow2(n - 1)

(***************************************************************************)
(* The messages sent.       idempotencyKey "" stands for no key supplied.  *)
(***************************************************************************)
Emails ==
  { [to |-> "a@x", from |-> "b@y", subject |-> "s1", body |-> "b", idempotencyKey |-> ""],
    [to |-> "a@x", from |-> "b@y", subject |-> "s2", body |-> "b", idempotencyKey |-> "k1"] }

\* JSON.stringify({to, subject, body, from}) followed by the sha256 hex digest,
\* kept as an injective encoding of the serialised text
Sha256(content) == "sha256(" \o content \o ")"

\* a fingerprint that leaves the sender out
generateIdempotencyKeyWithoutFrom(email) ==
  IF email.idempotencyKey # ""
    THEN email.idempotencyKey
    ELSE Sha256("{to:" \o email.to \o ",subject:" \o email.subject
                \o ",body:" \o email.body \o "}")

generateIdempotencyKey(email) ==
  IF email.idempotencyKey # ""
    THEN email.idempotencyKey
    ELSE Sha256("{to:" \o email.to \o ",subject:" \o email.subject
                \o ",body:" \o email.body \o ",from:" \o email.from \o "}")

Keys == { generateIdempotencyKey(e) : e \in Emails }

VARIABLES
  options,        \* the options object passed to the constructor
  providers,      \* this.providers: sequence of provider names
  maxRetries,     \* this.maxRetries
  now,            \* Date.now()
  requests,       \* rateLimiter.requests
  circuitBreakers,\* provider name -> [failureCount, state, nextAttempt]
  sentEmails,     \* idempotency cache: key -> SuccessResult or Absent
  emailStatuses,  \* status table: key -> status object or Absent
  queue,          \* queue.queue
  processing,     \* this.processing
  drain,          \* the processQueue task: [pc, wakeAt, allowed]
  calls,          \* the sendEmail / attemptSend executions in flight
  microtasks,     \* the continuations ready to run, oldest first: the
                  \* slot of a call, or 0 for processQueue
  budget,         \* the number of sendEmail calls still to be made
  returned,       \* history: the executions that have settled
  events,         \* history: per key, the events emitted, in order
  deliveries,     \* history: provider.sendEmail invocations that succeeded
  admissions      \* history: the times isAllowed returned true, back to
                  \* the oldest one still within windowMs of now

vars == <<options, providers, maxRetries, now, requests, circuitBreakers,
          sentEmails, emailStatuses, queue, processing, drain, calls,
          microtasks, budget, returned, events, deliveries, admissions>>

baseDelay == OrDefault(OptBaseDelay, DefaultBaseDelay)
maxDelay == OrDefault(OptMaxDelay, DefaultMaxDelay)
maxRequests == OrDefault(OptMaxRequests, DefaultMaxRequests)
windowMs == OrDefault(OptWindowMs, DefaultWindowMs)

Range(s) == { s[i] : i \in DOMAIN s }

(***************************************************************************)
(* CircuitBreaker                                                          *)
(***************************************************************************)
CircuitBreaker(t) ==
  [threshold |-> DefaultThreshold, timeout |-> DefaultTimeout,
   failureCount |-> 0, state |-> CircuitState.CLOSED, nextAttempt |-> t]

\* a breaker that lets every call through
RefusesNothing(cb, t) == FALSE

\* call(fn), up to the invocation of fn: TRUE when the call is refused
Refuses(cb, t) == cb.state = CircuitState.OPEN /\ t < cb.nextAttempt

\* a breaker that takes a refusal for a failure and restarts its cooldown
EnterCallCountsRefusal(cb, t) ==
  IF Refuses(cb, t)
    THEN [cb EXCEPT !.failureCount = @ + 1, !.nextAttempt = t + cb.timeout]
  ELSE IF cb.state = CircuitState.OPEN
    THEN [cb EXCEPT !.state = CircuitState.HALF_OPEN]
    ELSE cb

\* call(fn), the breaker after the test of its state: as fn is invoked, or
\* as the refusal is thrown
EnterCall(cb, t) ==
  IF cb.state = CircuitState.OPEN /\ ~Refuses(cb, t)
    THEN [cb EXCEPT !.state = CircuitState.HALF_OPEN]
    ELSE cb

\* a breaker that closes on success without clearing its count
onSuccessKeepsCount(cb) == [cb EXCEPT !.state = CircuitState.CLOSED]

onSuccess(cb) == [cb EXCEPT !.failureCount = 0, !.state = CircuitState.CLOSED]

\* a breaker that counts failures and never opens
onFailureNeverOpens(cb, t) == [cb EXCEPT !.failureCount = @ + 1]

onFailure(cb, t) ==
  LET n == cb.failureCount + 1 IN
  IF n >= cb.threshold
    THEN [cb EXCEPT !.failureCount = n, !.state = CircuitState.OPEN,
                    !.nextAttempt = t + cb.timeout]
    ELSE [cb EXCEPT !.failureCount = n]

(***************************************************************************)
(* RateLimiter                                                             *)
(***************************************************************************)
InWindow(time, t) == t - time < windowMs

Filtered(reqs, t) == SelectSeq(reqs, LAMBDA time : InWindow(time, t))

\* a limiter that admits one request more than maxRequests
isAllowedOffByOne(reqs, t) == ~(Len(Filtered(reqs, t)) > maxRequests)

\* isAllowed(): the value returned
isAllowed(reqs, t) == ~(Len(Filtered(reqs, t)) >= maxRequests)

\* isAllowed(): this.requests afterwards
RequestsAfter(reqs, t) ==
  IF isAllowed(reqs, t) THEN Append(Filtered(reqs, t), t) ELSE Filtered(reqs, t)

Recent(log, t) == SelectSeq(log, LAMBDA time : t - time < windowMs)

AdmissionsAfter(reqs, t) ==
  IF isAllowed(reqs, t) THEN Append(admissions, t) ELSE admissions

(***************************************************************************)
(* EmailService                                                            *)
(***************************************************************************)
\* calculateBackoffDelay(attempt) with Math.random() = r / RandomSteps, in
\* units of 1 / JitterScale milliseconds
JitterScale == 10 * RandomSteps

\* a backoff that is not clamped by maxDelay
BackoffDelayUnclamped(base, max, attempt, r) ==
  LET delay == base * Pow2(attempt) IN delay * JitterScale + r * delay

\* the body of calculateBackoffDelay for this.baseDelay = base and
\* this.maxDelay = max
BackoffDelay(base, max, attempt, r) ==
  LET delay == base * Pow2(attempt) IN
  Min(delay * JitterScale + r * delay, max * JitterScale)

calculateBackoffDelay(attempt, r) == BackoffDelay(baseDelay, maxDelay, attempt, r)

NoOutcome == [ok |-> FALSE, id |-> 0, error |-> Undefined]

\* the locals of one sendEmail / attemptSend execution
NewCall(origin, email, key) ==
  [origin |-> origin, email |-> email, key |-> key,
   pc |-> "start", allowed |-> FALSE, cacheHit |-> FALSE,
   providerIndex |-> 0, attempt |-> 0, lastError |-> Undefined,
   outcome |-> NoOutcome, wakeAt |-> 0, result |-> Absent, trace |-> <<>>,
   emitted |-> <<>>]

\* an emitter that delivers every event twice
emitTwice(log, type) == Append(Append(log, type), type)

\* this.emit(type, ...): the event joins those emitted so far
emit(log, type) == Append(log, type)

\* a sendEmail that never consults the idempotency cache
IsDuplicateIgnored(key) == FALSE

\* sendEmail: the test of the idempotency cache
IsDuplicate(key) == sentEmails[key] # Absent

\* attemptSend: the condition of the inner for loop
InnerLoopContinues(attempt) == attempt <= maxRetries

\* a coordinator that sleeps after every failed attempt
ShouldWaitAlways(attempt) == TRUE

\* attemptSend: the condition of the backoff sleep in the catch block
ShouldWait(attempt) == attempt < maxRetries

\* attemptSend, from the test of the loop conditions at (providerIndex p,
\* attempt a) to its next await: the status update, the breaker gate and the
\* invocation of provider.sendEmail, or the code after the loops when p is
\* past the end.  Yields the call, the status table, the breakers and the
\* events afterwards.
RECURSIVE RunAttempt(_, _, _, _, _, _)
RunAttempt(c0, p, a, statuses, breakers, evs) ==
  LET c == [c0 EXCEPT !.providerIndex = p, !.attempt = a,
                      !.outcome = NoOutcome, !.wakeAt = 0] IN
  IF p < Len(providers) /\ ~InnerLoopContinues(a)
    THEN RunAttempt(c0, p + 1, 0, statuses, breakers, evs)
  ELSE IF p >= Len(providers)
    THEN IF c.lastError = Undefined
      THEN \* lastError.message on undefined throws: the promise rejects
           [call |-> [c EXCEPT !.pc = "rejected"],
            statuses |-> statuses, breakers |-> breakers, events |-> evs]
      ELSE LET failureResult ==
                 [id |-> c.key, status |-> EmailStatus.FAILED,
                  error |-> c.lastError, attempts |-> maxRetries + 1]
           IN [call |-> [c EXCEPT !.pc = "done", !.result = failureResult,
                                  !.emitted = emit(@, "failed")],
               statuses |-> [statuses EXCEPT ![c.key] = failureResult],
               breakers |-> breakers,
               events |-> [evs EXCEPT ![c.key] = emit(@, "failed")]]
    ELSE LET name == providers[p + 1]
             cb == breakers[name]
             updated ==
               [statuses EXCEPT ![c.key] =
                  [status |-> IF a = 0 THEN EmailStatus.PENDING ELSE EmailStatus.RETRYING,
                   attempts |-> a + 1, currentProvider |-> name]]
         IN IF Refuses(cb, now)
              THEN [call |-> [c EXCEPT !.pc = "settled",
                                       !.outcome = [ok |-> FALSE, id |-> 0,
                                                    error |-> BreakerOpenMessage],
                                       !.trace = Append(@, [provider |-> name,
                                                            attempt |-> a + 1,
                                                            outcome |-> "refused"])],
                    statuses |-> updated,
                    breakers |-> [breakers EXCEPT ![name] = EnterCall(cb, now)],
                    events |-> evs]
              ELSE [call |-> [c EXCEPT !.pc = "inProvider",
                                       !.trace = Append(@, [provider |-> name,
                                                            attempt |-> a + 1,
                                                            outcome |-> "invoked"])],
                    statuses |-> updated,
                    breakers |-> [breakers EXCEPT ![name] = EnterCall(cb, now)],
                    events |-> evs]

\* attemptSend from its first statement to its first await
EnterAttemptSend(c) ==
  RunAttempt(c, 0, 0,
             [emailStatuses EXCEPT ![c.key] =
                [status |-> EmailStatus.PENDING, attempts |-> 0]],
             circuitBreakers, events)

\* an execution whose promise has settled
Finished(c) == c.pc \in {"done", "rejected"}

\* what is remembered of a settled execution
Summary(c) ==
  [origin |-> c.origin, key |-> c.key, cacheHit |-> c.cacheHit,
   pc |-> c.pc, result |-> c.result, providerIndex |-> c.providerIndex,
   trace |-> c.trace, emitted |-> c.emitted]

\* the executions in flight once execution i has run up to the state c
CallsWith(i, c) ==
  IF Finished(c)
    THEN [j \in DOMAIN calls \ {i} |-> calls[j]]
    ELSE [j \in DOMAIN calls \cup {i} |-> IF j = i THEN c ELSE calls[j]]

ReturnedWith(c) == IF Finished(c) THEN returned \cup {Summary(c)} ELSE returned

\* the slot of a new execution
FreeId == CHOOSE i \in 1..(Cardinality(DOMAIN calls) + 1) : i \notin DOMAIN calls /\ \A j \in 1..(i - 1) : j \in DOMAIN calls

\* the state after new EmailService(options), for options drawn from
\* optionSet and nCalls calls of sendEmail to come
InitWith(optionSet, nCalls) ==
  /\ options \in optionSet
  /\ providers = SubSeq(ProviderNames, 1, options.providers)
  /\ maxRetries = OrDefault(options.maxRetries, DefaultMaxRetries)
  /\ now = 0
  /\ requests = <<>>
  /\ circuitBreakers = [n \in Range(providers) |-> CircuitBreaker(now)]
  /\ sentEmails = [k \in Keys |-> Absent]
  /\ emailStatuses = [k \in Keys |-> Absent]
  /\ queue = <<>>
  /\ processing = FALSE
  /\ drain = [pc |-> "timer", wakeAt |-> now + QueueInterval, allowed |-> FALSE]
  /\ calls = <<>>
  /\ microtasks = <<>>
  /\ budget = nCalls
  /\ returned = {}
  /\ events = [k \in Keys |-> <<>>]
  /\ deliveries = <<>>
  /\ admissions = <<>>

Options == [maxRetries : 0..MaxRetriesOption, providers : 0..MaxProviders]

Init == InitWith(Options, MaxCalls)

\* Continuations of settled promises run before any timer or I/O callback:
\* TRUE when none is waiting
Idle == microtasks = <<>>

\* the continuations waiting once execution i has run up to the state c,
\* where the breaker may have refused and attemptSend awaits the rejection
Awaiting(waiting, i, c) == IF c.pc = "settled" THEN Append(waiting, i) ELSE waiting

\* TRUE when the continuation of execution i is the next to run
Resumes(i) == microtasks # <<>> /\ Head(microtasks) = i

DrainTask == 0

\* sendEmail is called from a callback of its caller, which runs like any
\* other callback once the continuations of the service have run; it may
\* call sendEmail several times before it yields
CallerRuns ==
  \A k \in DOMAIN microtasks :
    microtasks[k] # DrainTask /\ calls[microtasks[k]].pc = "awaitAllowed"

\* the values of Date.now() explored
Instants ==
  { j * DefaultTimeout + k * QueueInterval : j \in 0..MaxJumps, k \in 0..MaxTicks }

\* Date.now() advances
Tick(d) ==
  /\ Idle
  /\ now + d \in Instants
  /\ now' = now + d
  /\ admissions' = Recent(admissions, now')
  /\ UNCHANGED <<options, providers, maxRetries, requests, circuitBreakers,
                 sentEmails, emailStatuses, queue, processing, drain, calls,
                 microtasks, budget, returned, events, deliveries>>

\* sendEmail(email) up to its first await: a cache hit returns at once,
\* otherwise rateLimiter.isAllowed() runs
SendEmail(email) ==
  LET c == NewCall("sendEmail", email, generateIdempotencyKey(email)) IN
  /\ CallerRuns
  /\ budget > 0
  /\ budget' = budget - 1
  /\ IF IsDuplicate(c.key)
       THEN /\ returned' = returned \cup
                 {Summary([c EXCEPT !.pc = "done", !.cacheHit = TRUE,
                                    !.result = sentEmails[c.key]])}
            /\ UNCHANGED <<calls, microtasks, requests, admissions>>
       ELSE /\ calls' = CallsWith(FreeId, [c EXCEPT !.pc = "awaitAllowed",
                                                    !.allowed = isAllowed(requests, now)])
            /\ microtasks' = Append(microtasks, FreeId)
            /\ requests' = RequestsAfter(requests, now)
            /\ admissions' = AdmissionsAfter(requests, now)
            /\ UNCHANGED returned
  /\ UNCHANGED <<options, providers, maxRetries, now, circuitBreakers, sentEmails,
                 emailStatuses, queue, processing, drain, events, deliveries>>

\* a queue that takes new entries at its head
enqueueAtHead(q, email) == <<email>> \o q

\* a queue that drops what it is given
enqueueNothing(q, email) == q

\* EmailQueue.enqueue: this.queue.push(email)
enqueue(q, email) == Append(q, email)

\* sendEmail after await isAllowed(): denied, the email is queued
SendEmailQueued(i) ==
  LET c == calls[i]
      done == [c EXCEPT !.pc = "done", !.emitted = emit(@, "queued"),
                        !.result = [id |-> c.key, status |-> EmailStatus.QUEUED,
                                    message |-> "Email queued due to rate limiting"]] IN
  /\ Resumes(i)
  /\ c.pc = "awaitAllowed" /\ ~c.allowed
  /\ microtasks' = Tail(microtasks)
  /\ emailStatuses' = [emailStatuses EXCEPT ![c.key] =
                         [status |-> EmailStatus.QUEUED, attempts |-> 0]]
  /\ queue' = enqueue(queue, [email |-> c.email, idempotencyKey |-> c.key])
  /\ events' = [events EXCEPT ![c.key] = emit(@, "queued")]
  /\ calls' = CallsWith(i, done)
  /\ returned' = ReturnedWith(done)
  /\ UNCHANGED <<options, providers, maxRetries, now, requests, circuitBreakers,
                 sentEmails, processing, drain, budget, deliveries, admissions>>

\* sendEmail after await isAllowed(): admitted, attemptSend starts
SendEmailAdmitted(i) ==
  LET c == calls[i]
      r == EnterAttemptSend(c) IN
  /\ Resumes(i)
  /\ c.pc = "awaitAllowed" /\ c.allowed
  /\ microtasks' = Awaiting(Tail(microtasks), i, r.call)
  /\ calls' = CallsWith(i, r.call)
  /\ returned' = ReturnedWith(r.call)
  /\ emailStatuses' = r.statuses
  /\ circuitBreakers' = r.breakers
  /\ events' = r.events
  /\ UNCHANGED <<options, providers, maxRetries, now, requests, sentEmails, queue,
                 processing, drain, budget, deliveries, admissions>>

\* provider.sendEmail settles and CircuitBreaker.call resumes with
\* onSuccess() or onFailure()
ProviderSettles(i, ok) ==
  LET c == calls[i]
      name == providers[c.providerIndex + 1]
      id == Len(deliveries) + 1
      last == Len(c.trace) IN
  /\ Idle
  /\ c.pc = "inProvider"
  /\ microtasks' = <<i>>
  /\ IF ok
       THEN /\ circuitBreakers' = [circuitBreakers EXCEPT ![name] = onSuccess(@)]
            /\ deliveries' = Append(deliveries, [idempotencyKey |-> c.key,
                                                 provider |-> name, id |-> id])
            /\ calls' = [calls EXCEPT ![i] =
                           [c EXCEPT !.pc = "settled",
                                     !.outcome = [ok |-> TRUE, id |-> id, error |-> Undefined],
                                     !.trace[last].outcome = "success"]]
       ELSE /\ circuitBreakers' = [circuitBreakers EXCEPT ![name] = onFailure(@, now)]
            /\ deliveries' = deliveries
            /\ calls' = [calls EXCEPT ![i] =
                           [c EXCEPT !.pc = "settled",
                                     !.outcome = [ok |-> FALSE, id |-> 0,
                                                  error |-> ProviderError(name)],
                                     !.trace[last].outcome = "failure"]]
  /\ UNCHANGED <<options, providers, maxRetries, now, requests, sentEmails,
                 emailStatuses, queue, processing, drain, budget, returned,
                 events, admissions>>

\* attemptSend after await circuitBreaker.call(...) returned a result
AttemptSucceeds(i) ==
  LET c == calls[i]
      name == providers[c.providerIndex + 1]
      successResult == [id |-> c.outcome.id, status |-> EmailStatus.SENT,
                        provider |-> name, attempts |-> c.attempt + 1]
      done == [c EXCEPT !.pc = "done", !.result = successResult,
                        !.emitted = emit(@, "sent")] IN
  /\ Resumes(i)
  /\ c.pc = "settled" /\ c.outcome.ok
  /\ microtasks' = Tail(microtasks)
  /\ sentEmails' = [sentEmails EXCEPT ![c.key] = successResult]
  /\ emailStatuses' = [emailStatuses EXCEPT ![c.key] = successResult]
  /\ events' = [events EXCEPT ![c.key] = emit(@, "sent")]
  /\ calls' = CallsWith(i, done)
  /\ returned' = ReturnedWith(done)
  /\ UNCHANGED <<options, providers, maxRetries, now, requests, circuitBreakers,
                 queue, processing, drain, budget, deliveries, admissions>>

\* a coordinator that takes a refusal for an error like any other
IsBreakerOpenNever(message) == FALSE

\* error.message.includes("Circuit breaker is OPEN")
IsBreakerOpen(message) == message = BreakerOpenMessage

\* attemptSend in the catch block: break and go on with the next provider,
\* start the backoff sleep, or go round the inner loop without sleeping
AttemptFails(i, r) ==
  LET c == calls[i]
      failed == [c EXCEPT !.lastError = c.outcome.error] IN
  /\ Resumes(i)
  /\ c.pc = "settled" /\ ~c.outcome.ok
  /\ IF IsBreakerOpen(c.outcome.error) \/ ~ShouldWait(c.attempt)
       THEN LET next == IF IsBreakerOpen(c.outcome.error)
                          THEN RunAttempt(failed, c.providerIndex + 1, 0,
                                          emailStatuses, circuitBreakers, events)
                          ELSE RunAttempt(failed, c.providerIndex, c.attempt + 1,
                                          emailStatuses, circuitBreakers, events) IN
            /\ r = 0
            /\ microtasks' = Awaiting(Tail(microtasks), i, next.call)
            /\ calls' = CallsWith(i, next.call)
            /\ returned' = ReturnedWith(next.call)
            /\ emailStatuses' = next.statuses
            /\ circuitBreakers' = next.breakers
            /\ events' = next.events
       ELSE /\ calls' = [calls EXCEPT ![i] =
                           [failed EXCEPT !.pc = "sleeping", !.outcome = NoOutcome,
                                          !.wakeAt = now * JitterScale
                                                     + calculateBackoffDelay(c.attempt, r)]]
            /\ microtasks' = Tail(microtasks)
            /\ UNCHANGED <<returned, emailStatuses, circuitBreakers, events>>
  /\ UNCHANGED <<options, providers, maxRetries, now, requests, sentEmails, queue,
                 processing, drain, budget, deliveries, admissions>>

\* the backoff timer fires and the inner loop goes on with attempt + 1
BackoffElapsed(i) ==
  LET c == calls[i]
      next == RunAttempt(c, c.providerIndex, c.attempt + 1,
                         emailStatuses, circuitBreakers, events) IN
  /\ Idle
  /\ c.pc = "sleeping"
  /\ now * JitterScale >= c.wakeAt
  /\ microtasks' = Awaiting(<<>>, i, next.call)
  /\ calls' = CallsWith(i, next.call)
  /\ returned' = ReturnedWith(next.call)
  /\ emailStatuses' = next.statuses
  /\ circuitBreakers' = next.breakers
  /\ events' = next.events
  /\ UNCHANGED <<options, providers, maxRetries, now, requests, sentEmails, queue,
                 processing, drain, budget, deliveries, admissions>>

\* the processQueue timer fires: nothing to do and a new timer, or the
\* first isAllowed() of the while loop
ProcessQueue ==
  /\ Idle
  /\ drain.pc = "timer"
  /\ now >= drain.wakeAt
  /\ IF processing \/ queue = <<>>
       THEN /\ drain' = [drain EXCEPT !.wakeAt = now + QueueInterval]
            /\ UNCHANGED <<processing, requests, admissions, microtasks>>
       ELSE /\ processing' = TRUE
            /\ microtasks' = <<DrainTask>>
            /\ drain' = [pc |-> "awaitAllowed", wakeAt |-> 0,
                         allowed |-> isAllowed(requests, now)]
            /\ requests' = RequestsAfter(requests, now)
            /\ admissions' = AdmissionsAfter(requests, now)
  /\ UNCHANGED <<options, providers, maxRetries, now, circuitBreakers, sentEmails,
                 emailStatuses, queue, calls, budget, returned, events, deliveries>>

\* processQueue after await isAllowed() returned true: dequeue, start
\* attemptSend without awaiting it, then test the loop condition again
ProcessQueueDispatch ==
  LET queuedEmail == Head(queue)
      c == [NewCall("processQueue", queuedEmail.email, queuedEmail.idempotencyKey)
              EXCEPT !.allowed = TRUE]
      r == EnterAttemptSend(c) IN
  /\ Resumes(DrainTask)
  /\ drain.pc = "awaitAllowed" /\ drain.allowed
  /\ queue' = Tail(queue)
  /\ calls' = CallsWith(FreeId, r.call)
  /\ returned' = ReturnedWith(r.call)
  /\ emailStatuses' = r.statuses
  /\ circuitBreakers' = r.breakers
  /\ events' = r.events
  /\ IF Tail(queue) # <<>>
       THEN /\ drain' = [drain EXCEPT !.allowed = isAllowed(requests, now)]
            /\ requests' = RequestsAfter(requests, now)
            /\ admissions' = AdmissionsAfter(requests, now)
            /\ microtasks' = Append(Awaiting(Tail(microtasks), FreeId, r.call), DrainTask)
            /\ UNCHANGED processing
       ELSE /\ processing' = FALSE
            /\ drain' = [pc |-> "timer", wakeAt |-> now + QueueInterval, allowed |-> FALSE]
            /\ microtasks' = Awaiting(Tail(microtasks), FreeId, r.call)
            /\ UNCHANGED <<requests, admissions>>
  /\ UNCHANGED <<options, providers, maxRetries, now, sentEmails, budget, deliveries>>

\* a drain worker that drops the head of the queue when it is denied
ProcessQueueDeniedDequeues ==
  /\ Resumes(DrainTask)
  /\ drain.pc = "awaitAllowed" /\ ~drain.allowed
  /\ microtasks' = Tail(microtasks)
  /\ processing' = FALSE
  /\ queue' = Tail(queue)
  /\ drain' = [pc |-> "timer", wakeAt |-> now + QueueInterval, allowed |-> FALSE]
  /\ UNCHANGED <<options, providers, maxRetries, now, requests, circuitBreakers,
                 sentEmails, emailStatuses, calls, budget, returned,
                 events, deliveries, admissions>>

\* processQueue after await isAllowed() returned false: break, finally
ProcessQueueDenied ==
  /\ Resumes(DrainTask)
  /\ drain.pc = "awaitAllowed" /\ ~drain.allowed
  /\ microtasks' = Tail(microtasks)
  /\ processing' = FALSE
  /\ drain' = [pc |-> "timer", wakeAt |-> now + QueueInterval, allowed |-> FALSE]
  /\ UNCHANGED <<options, providers, maxRetries, now, requests, circuitBreakers,
                 sentEmails, emailStatuses, queue, calls, budget, returned,
                 events, deliveries, admissions>>

TickSteps == {QueueInterval, DefaultTimeout}

Next ==
  \/ \E d \in TickSteps : Tick(d)
  \/ \E email \in Emails : SendEmail(email)
  \/ \E i \in DOMAIN calls : SendEmailQueued(i)
  \/ \E i \in DOMAIN calls : SendEmailAdmitted(i)
  \/ \E i \in DOMAIN calls : \E ok \in BOOLEAN : ProviderSettles(i, ok)
  \/ \E i \in DOMAIN calls : AttemptSucceeds(i)
  \/ \E i \in DOMAIN calls : \E r \in 0..(RandomSteps - 1) : AttemptFails(i, r)
  \/ \E i \in DOMAIN calls : BackoffElapsed(i)
  \/ ProcessQueue
  \/ ProcessQueueDispatch
  \/ ProcessQueueDenied

Spec == Init /\ [][Next]_vars

(***************************************************************************)
(* Properties                                                              *)
(***************************************************************************)
\* every execution, in flight or settled, with its key and its attempts
Executions == { Summary(calls[i]) : i \in DOMAIN calls } \cup returned

\* the entries of a trace that are invocations of provider.sendEmail
Invocations(trace) == { k \in DOMAIN trace : trace[k].outcome # "refused" }

InvocationsOf(trace, name) == { k \in Invocations(trace) : trace[k].provider = name }

DeliveriesFor(key) == { k \in DOMAIN deliveries : deliveries[k].idempotencyKey = key }

StatusOf(table, key) == table[key].status

\* C1: for every fingerprint at most one provider.sendEmail invocation made
\* on its behalf ever completes successfully.
AtMostOnceDelivery == \A key \in Keys : Cardinality(DeliveriesFor(key)) <= 1

\* C2: a sendEmail call whose fingerprint is in sentEmails returns the stored
\* result and invokes no provider, records no admission, queues nothing,
\* emits nothing and leaves the status table alone.
CacheHitHasNoSideEffects ==
  [][ budget' = budget - 1 =>
        /\ \A i \in DOMAIN calls' \ DOMAIN calls : sentEmails[calls'[i].key] = Absent
        /\ DOMAIN calls' = DOMAIN calls =>
             /\ \A r \in returned' \ returned :
                  r.cacheHit /\ r.result = sentEmails[r.key] /\ r.trace = <<>>
             /\ \E r \in returned' : r.cacheHit /\ r.result = sentEmails[r.key]
             /\ UNCHANGED <<calls, requests, admissions, queue, events, emailStatuses,
                            sentEmails, deliveries, circuitBreakers>> ]_vars

CacheHitReturned ==
  \E r \in returned : r.cacheHit /\ r.result.status = EmailStatus.SENT

\* C3: once sentEmails holds a result for a fingerprint, that entry is never
\* removed or replaced by a different result.
SuccessCacheAppendOnly ==
  [][ \A key \in Keys : sentEmails[key] # Absent => sentEmails'[key] = sentEmails[key] ]_vars

\* C4: the status table reports SENT for a fingerprint exactly when the
\* success cache holds a result for it.
SentIffCached ==
  \A key \in Keys :
    StatusOf(emailStatuses, key) = EmailStatus.SENT <=> sentEmails[key] # Absent

\* C5: once the status of a fingerprint is SENT or FAILED it does not change.
TerminalStatusStable ==
  [][ \A key \in Keys :
        StatusOf(emailStatuses, key) \in {EmailStatus.SENT, EmailStatus.FAILED}
          => StatusOf(emailStatuses', key) = StatusOf(emailStatuses, key) ]_vars

\* the transition table of the status value; "absent" is the initial state
AllowedTransitions ==
  { <<"absent", EmailStatus.PENDING>>, <<"absent", EmailStatus.QUEUED>>,
    <<EmailStatus.PENDING, EmailStatus.RETRYING>>, <<EmailStatus.PENDING, EmailStatus.SENT>>,
    <<EmailStatus.PENDING, EmailStatus.FAILED>>,
    <<EmailStatus.RETRYING, EmailStatus.RETRYING>>, <<EmailStatus.RETRYING, EmailStatus.SENT>>,
    <<EmailStatus.RETRYING, EmailStatus.FAILED>>,
    <<EmailStatus.QUEUED, EmailStatus.PENDING>>, <<EmailStatus.QUEUED, EmailStatus.SENT>>,
    <<EmailStatus.QUEUED, EmailStatus.FAILED>> }

\* C6: every change of the status value of a fingerprint follows the
\* transition table.
StatusFollowsTransitionTable ==
  [][ \A key \in Keys :
        StatusOf(emailStatuses', key) # StatusOf(emailStatuses, key)
          => <<StatusOf(emailStatuses, key), StatusOf(emailStatuses', key)>>
               \in AllowedTransitions ]_vars

\* C7: one execution of attemptSend invokes provider.sendEmail at most
\* (number of configured providers) x (configured maxRetries + 1) times.
BoundedAttempts ==
  \A e \in Executions :
    Cardinality(Invocations(e.trace)) <= Len(providers) * (options.maxRetries + 1)

\* TRUE when the execution has left provider number p (from 1) behind with
\* every attempt on it an invocation that failed
GaveUpOn(e, p) ==
  /\ p <= e.providerIndex
  /\ \A k \in DOMAIN e.trace :
       e.trace[k].provider = providers[p] => e.trace[k].outcome = "failure"

\* C8: a transport whose every attempt fails, and whose breaker does not
\* refuse, is invoked exactly (configured maxRetries) + 1 times within one
\* submission before the coordinator moves on.
ConfiguredRetriesHonoured ==
  \A e \in Executions : \A p \in DOMAIN providers :
    GaveUpOn(e, p)
      => Cardinality(InvocationsOf(e.trace, providers[p])) = options.maxRetries + 1

\* C9: at every instant at most maxRequests admissions lie within windowMs.
RateLimitCeiling ==
  Cardinality({ k \in DOMAIN admissions : now - admissions[k] < windowMs }) <= maxRequests

\* the window is full of admissions granted to sendEmail calls and the
\* drain worker, asking the same limiter, has been denied
DrainDeniedAtCeiling ==
  /\ Cardinality({ k \in DOMAIN admissions : now - admissions[k] < windowMs }) = maxRequests
  /\ drain.pc = "awaitAllowed" /\ ~drain.allowed
  /\ queue # <<>>

\* the trace of execution i before this step
TraceBefore(i) == IF i \in DOMAIN calls THEN calls[i].trace ELSE <<>>

\* C10: no provider is invoked through its breaker while the breaker is
\* OPEN and the time is before nextAttempt; the call gets the breaker-open
\* signal instead.
BreakerGating ==
  [][ \A i \in DOMAIN calls' :
        Len(calls'[i].trace) = Len(TraceBefore(i)) + 1 =>
          LET entry == calls'[i].trace[Len(calls'[i].trace)]
              cb == circuitBreakers[entry.provider]
              gated == cb.state = CircuitState.OPEN /\ now < cb.nextAttempt
          IN /\ entry.outcome = "invoked" => ~gated
             /\ gated => /\ entry.outcome = "refused"
                         /\ calls'[i].outcome.error = BreakerOpenMessage
                         /\ circuitBreakers' = circuitBreakers ]_vars

BreakerRefusedCall ==
  \E i \in DOMAIN calls :
    /\ calls[i].pc = "settled"
    /\ calls[i].outcome.error = BreakerOpenMessage
    /\ circuitBreakers[providers[calls[i].providerIndex + 1]].state = CircuitState.OPEN

\* the entry execution i adds to its trace in this step, if it adds one
AddsEntry(i) == Len(calls'[i].trace) = Len(TraceBefore(i)) + 1

NewEntry(i) == calls'[i].trace[Len(calls'[i].trace)]

\* C11: while a breaker is HALF_OPEN, its probe being unresolved, no other
\* call arriving at that breaker invokes the provider.
SingleProbe ==
  [][ \A i \in DOMAIN calls' :
        AddsEntry(i) /\ NewEntry(i).outcome = "invoked"
          => circuitBreakers[NewEntry(i).provider].state # CircuitState.HALF_OPEN ]_vars

\* the events of a log that are of one of the given types
EventsOf(log, types) == SelectSeq(log, LAMBDA type : type \in types)

TerminalEvents == {"sent", "failed"}

\* TRUE when the log holds a "queued" event before an event of the type
QueuedBefore(log, type) ==
  \E j, k \in DOMAIN log : j < k /\ log[j] = "queued" /\ log[k] = type

\* C12: a sendEmail call that is not a cache hit emits at most one 'queued';
\* an execution that has resolved SENT or FAILED has emitted exactly one
\* terminal event, 'sent' or 'failed' to match; a cache hit emits nothing;
\* a queued submission's 'queued' comes before its terminal event.
EventCardinalityAndOrder ==
  \A e \in Executions :
    /\ Len(EventsOf(e.emitted, {"queued"})) <= 1
    /\ Len(EventsOf(e.emitted, TerminalEvents)) <= 1
    /\ e.cacheHit => e.emitted = <<>>
    /\ e.pc = "done" /\ ~e.cacheHit /\ e.result.status = EmailStatus.SENT
         => EventsOf(e.emitted, TerminalEvents) = <<"sent">>
    /\ e.pc = "done" /\ e.result.status = EmailStatus.FAILED
         => EventsOf(e.emitted, TerminalEvents) = <<"failed">>
    /\ e.origin = "processQueue"
         => /\ "queued" \in Range(events[e.key])
            /\ e.emitted # <<>> => QueuedBefore(events[e.key], e.emitted[1])

QueuedThenSent ==
  \E r \in returned :
    /\ r.origin = "processQueue"
    /\ r.result.status = EmailStatus.SENT
    /\ events[r.key] = <<"queued", "sent">>

\* TRUE when execution i, suspended before this step, runs in it
Runs(i) == i \notin DOMAIN calls' \/ calls'[i] # calls[i]

\* C13: a sendEmail call that isAllowed() has denied sets the status of its
\* fingerprint to QUEUED with attempts 0, appends one entry (message,
\* fingerprint) to the tail of the queue, emits 'queued', returns a result
\* with status QUEUED and the fingerprint as id, and invokes no provider.
DenialDefers ==
  [][ \A i \in DOMAIN calls :
        calls[i].pc = "awaitAllowed" /\ ~calls[i].allowed /\ Runs(i) =>
          LET key == calls[i].key IN
          /\ emailStatuses'[key] = [status |-> EmailStatus.QUEUED, attempts |-> 0]
          /\ queue' = Append(queue, [email |-> calls[i].email, idempotencyKey |-> key])
          /\ events'[key] = Append(events[key], "queued")
          /\ i \notin DOMAIN calls'
          /\ \E r \in returned' :
               /\ r.origin = "sendEmail" /\ r.key = key /\ r.pc = "done"
               /\ r.result.status = EmailStatus.QUEUED /\ r.result.id = key
               /\ r.trace = <<>> /\ r.emitted = <<"queued">>
          /\ UNCHANGED <<deliveries, circuitBreakers, sentEmails, requests>> ]_vars

QueuedResultReturned ==
  \E r \in returned :
    /\ r.result.status = EmailStatus.QUEUED
    /\ queue # <<>> /\ queue[Len(queue)].idempotencyKey = r.key
    /\ emailStatuses[r.key] = [status |-> EmailStatus.QUEUED, attempts |-> 0]

(***************************************************************************)
(* Liveness.  The service runs for ever, so the clock and the histories    *)
(* are unbounded.  Rebase moves the origin of time to the present: every   *)
(* timestamp is kept relative to now, one that no comparison of the code   *)
(* can tell from an older one is floored, and so is a failure count past   *)
(* the threshold; the histories start afresh and the caller gets further   *)
(* sendEmail calls to make.                                                *)
(***************************************************************************)
LiveQueueBound == 1   \* the caller goes on while at most this many are queued

Max(a, b) == IF a > b THEN a ELSE b

Rebase ==
  /\ Idle
  /\ now > 0
  /\ now' = 0
  /\ requests' = [k \in DOMAIN requests |-> Max(requests[k] - now, 0 - windowMs)]
  /\ admissions' = [k \in DOMAIN admissions |-> Max(admissions[k] - now, 0 - windowMs)]
  /\ circuitBreakers' =
       [n \in DOMAIN circuitBreakers |->
          [circuitBreakers[n] EXCEPT !.nextAttempt = Max(@ - now, 0),
                                     !.failureCount = Min(@, DefaultThreshold)]]
  /\ drain' = [drain EXCEPT !.wakeAt = Max(@ - now, 0)]
  /\ calls' = [i \in DOMAIN calls |->
                [calls[i] EXCEPT !.wakeAt = Max(@ - now * JitterScale, 0)]]
  /\ budget' = IF Len(queue) <= LiveQueueBound THEN MaxCalls ELSE budget
  /\ events' = [k \in Keys |-> <<>>]
  /\ deliveries' = <<>>
  /\ returned' = {}
  /\ UNCHANGED <<options, providers, maxRetries, sentEmails, emailStatuses,
                 queue, processing, microtasks>>

\* TRUE when no timer of the service is due: timers fire on time
NoTimerDue ==
  /\ ~(drain.pc = "timer" /\ now >= drain.wakeAt)
  /\ \A i \in DOMAIN calls :
       ~(calls[i].pc = "sleeping" /\ now * JitterScale >= calls[i].wakeAt)

\* TRUE when no call of provider.sendEmail is pending: the latency of a
\* provider is a fraction of a second
NoCallPending == \A i \in DOMAIN calls : calls[i].pc # "inProvider"

\* a second of time passes
LiveTick == NoTimerDue /\ NoCallPending /\ Tick(QueueInterval)

LiveOptions == [maxRetries : {MaxRetriesOption}, providers : {MaxProviders - 1}]

LiveInit == InitWith(LiveOptions, MaxCalls)

\* the handlers of the service, run in the present, with a provider that
\* is down: each of its calls settles with an error
LiveHandlers ==
  \/ \E email \in Emails : SendEmail(email)
  \/ \E i \in DOMAIN calls : SendEmailQueued(i)
  \/ \E i \in DOMAIN calls : SendEmailAdmitted(i)
  \/ \E i \in DOMAIN calls : ProviderSettles(i, FALSE)
  \/ \E i \in DOMAIN calls : \E r \in 0..(RandomSteps - 1) : AttemptFails(i, r)
  \/ \E i \in DOMAIN calls : BackoffElapsed(i)
  \/ ProcessQueue
  \/ ProcessQueueDispatch
  \/ ProcessQueueDenied

LiveNext ==
  \/ LiveTick
  \/ Rebase
  \/ now = 0 /\ LiveHandlers

\* time advances, every provider call settles, every continuation and
\* every timer callback of the service runs; the caller is free to call
\* sendEmail or not
LiveFairness ==
  /\ WF_vars(LiveTick)
  /\ WF_vars(Rebase)
  /\ WF_vars(\E i \in DOMAIN calls : SendEmailQueued(i))
  /\ WF_vars(\E i \in DOMAIN calls : SendEmailAdmitted(i))
  /\ WF_vars(\E i \in DOMAIN calls : ProviderSettles(i, FALSE))
  /\ WF_vars(\E i \in DOMAIN calls : \E r \in 0..(RandomSteps - 1) : AttemptFails(i, r))
  /\ WF_vars(\E i \in DOMAIN calls : BackoffElapsed(i))
  /\ WF_vars(ProcessQueue)
  /\ WF_vars(ProcessQueueDispatch)
  /\ WF_vars(ProcessQueueDenied)

LiveSpec == LiveInit /\ [][LiveNext]_vars /\ LiveFairness

IsQueued(key) == \E k \in DOMAIN queue : queue[k].idempotencyKey = key

\* C14: every entry appended to the queue is eventually dequeued and its
\* fingerprint eventually reaches SENT or FAILED, while sendEmail calls
\* keep arriving.
QueuedEventuallyDrained ==
  \A key \in Keys :
    /\ IsQueued(key) ~> ~IsQueued(key)
    /\ IsQueued(key)
         ~> StatusOf(emailStatuses, key) \in {EmailStatus.SENT, EmailStatus.FAILED}

\* the position of a provider in this.providers
IndexOf(name) == CHOOSE p \in DOMAIN providers : providers[p] = name

\* the entries of a trace for the provider with the given outcome
EntriesOf(trace, name, outcome) ==
  { k \in DOMAIN trace : trace[k].provider = name /\ trace[k].outcome = outcome }

\* TRUE when the trace of an execution keeps the order of this.providers and
\* reaches a provider only when each one before it has failed at least
\* (configured maxRetries + 1) times or has been refused by its breaker
FallsBackInOrder(trace) ==
  /\ \A j, k \in DOMAIN trace :
       j < k => IndexOf(trace[j].provider) <= IndexOf(trace[k].provider)
  /\ \A k \in DOMAIN trace : \A q \in 1..(IndexOf(trace[k].provider) - 1) :
       \/ EntriesOf(trace, providers[q], "refused") # {}
       \/ Cardinality(EntriesOf(trace, providers[q], "failure")) >= options.maxRetries + 1

\* TRUE when a SENT result names the first provider of the trace whose
\* invocation succeeded
NamesFirstSuccess(e) ==
  e.pc = "done" /\ ~e.cacheHit /\ e.result.status = EmailStatus.SENT =>
    \E k \in DOMAIN e.trace :
      /\ e.trace[k].outcome = "success" /\ e.trace[k].provider = e.result.provider
      /\ \A j \in 1..(k - 1) : e.trace[j].outcome # "success"

\* C15: within one submission the providers are invoked in list order; the
\* next one is reached only after the one before has failed maxRetries + 1
\* times or been refused by its breaker; the execution moves from the last
\* attempt on one provider to the first on the next in one go, without a
\* sleep; a SENT result names the first provider that succeeded.
OrderedFallback ==
  [][ /\ \A e \in Executions' : FallsBackInOrder(e.trace) /\ NamesFirstSuccess(e)
      /\ \A i \in DOMAIN calls \cap DOMAIN calls' :
           /\ AddsEntry(i) /\ calls[i].trace # <<>>
           /\ NewEntry(i).provider # calls[i].trace[Len(calls[i].trace)].provider
           => calls[i].pc = "settled" /\ now' = now ]_vars

SentBySecondProvider ==
  \E r \in returned :
    /\ Len(providers) > 1
    /\ r.result.status = EmailStatus.SENT /\ ~r.cacheHit
    /\ r.result.provider = providers[Len(providers)]
    /\ Cardinality(EntriesOf(r.trace, providers[1], "failure")) = maxRetries + 1

\* TRUE when the trace shows the provider exhausted or refused by its breaker
DoneWith(trace, name) ==
  \/ EntriesOf(trace, name, "refused") # {}
  \/ Cardinality(EntriesOf(trace, name, "failure")) >= options.maxRetries + 1

\* C16: no sendEmail call rejects; each resolves SENT, QUEUED or FAILED,
\* and FAILED only once every configured provider is exhausted or refused.
ErrorsNeverEscape ==
  \A e \in Executions :
    e.origin = "sendEmail" =>
      /\ e.pc # "rejected"
      /\ e.pc = "done" =>
           /\ e.result.status \in {EmailStatus.SENT, EmailStatus.QUEUED, EmailStatus.FAILED}
           /\ e.result.status = EmailStatus.FAILED
                => \A q \in DOMAIN providers : DoneWith(e.trace, providers[q])

\* the entries of a trace that are provider invocations that failed
Failures(trace) == { k \in DOMAIN trace : trace[k].outcome = "failure" }

\* the error raised by the last invocation of the trace that failed
LastTransientError(trace) ==
  LET k == CHOOSE j \in Failures(trace) : \A l \in Failures(trace) : l <= j
  IN ProviderError(trace[k].provider)

\* C17: the error of a FailureResult is the last error a provider raised
\* in that submission, never the breaker-open signal.
FailureCarriesLastTransientError ==
  \A e \in Executions :
    e.pc = "done" /\ e.result.status = EmailStatus.FAILED =>
      /\ e.result.error # BreakerOpenMessage
      /\ Failures(e.trace) # {} => e.result.error = LastTransientError(e.trace)

(***************************************************************************)
(* generateIdempotencyKey on its own: the caller computes the fingerprints *)
(* of messages drawn from a wider set.                                     *)
(***************************************************************************)
Messages ==
  [to : {"a@x", "c@z"}, from : {"b@y", "d@w"}, subject : {"s1", "s2"},
   body : {"b", "b2"}, idempotencyKey : {"", "k1", "k2"}]

\* service.generateIdempotencyKey(email), called from outside
Fingerprint(email) ==
  /\ budget > 0
  /\ budget' = budget - 1
  /\ calls' = CallsWith(FreeId, NewCall("generateIdempotencyKey", email,
                                        generateIdempotencyKey(email)))
  /\ UNCHANGED <<options, providers, maxRetries, now, requests, circuitBreakers,
                 sentEmails, emailStatuses, queue, processing, drain, microtasks,
                 returned, events, deliveries, admissions>>

KeyNext == \E email \in Messages : Fingerprint(email)

KeySpec == InitWith(LiveOptions, MaxCalls) /\ [][KeyNext]_vars

\* (to, from, subject, body)
Content(email) == <<email.to, email.from, email.subject, email.body>>

\* C18: the fingerprint is the supplied idempotencyKey verbatim; without
\* one it depends on (to, from, subject, body) only: equal tuples give equal
\* fingerprints on every call and different tuples different ones.
FingerprintingIsSound ==
  \A i, j \in DOMAIN calls :
    LET m == calls[i].email
        n == calls[j].email IN
    /\ m.idempotencyKey # "" => calls[i].key = m.idempotencyKey
    /\ m.idempotencyKey = "" /\ n.idempotencyKey = ""
         => (calls[i].key = calls[j].key <=> Content(m) = Content(n))

FingerprintsOfTwoSenders ==
  \E i, j \in DOMAIN calls :
    LET m == calls[i].email
        n == calls[j].email IN
    /\ calls[i].origin = "generateIdempotencyKey"
    /\ m.idempotencyKey = "" /\ n.idempotencyKey = ""
    /\ m.from # n.from /\ [m EXCEPT !.from = n.from] = n
    /\ calls[i].key # calls[j].key

\* the fingerprints in the status table, and those with a given status
Tracked == { k \in Keys : emailStatuses[k] # Absent }

WithStatus(status) == { k \in Tracked : emailStatuses[k].status = status }

\* getStats(), the counts it returns; it runs to completion when called
getStats ==
  [totalEmails |-> Cardinality(Tracked),
   sentEmails |-> Cardinality(WithStatus(EmailStatus.SENT)),
   failedEmails |-> Cardinality(WithStatus(EmailStatus.FAILED)),
   queuedEmails |-> Len(queue)]

\* C19: getStats reports the number of fingerprints in the status table and
\* the numbers of those whose status is SENT, FAILED and QUEUED, so the
\* three add up to no more than the total.
SnapshotConsistency ==
  /\ getStats.totalEmails = Cardinality(Tracked)
  /\ getStats.sentEmails = Cardinality(WithStatus(EmailStatus.SENT))
  /\ getStats.failedEmails = Cardinality(WithStatus(EmailStatus.FAILED))
  /\ getStats.queuedEmails = Cardinality(WithStatus(EmailStatus.QUEUED))
  /\ getStats.sentEmails + getStats.failedEmails + getStats.queuedEmails
       <= getStats.totalEmails

\* C20: the attempts field of a SuccessResult is the number of provider
\* invocations the submission made, over all providers it tried.
AttemptsCountsAllProviders ==
  \A e \in Executions :
    e.pc = "done" /\ ~e.cacheHit /\ e.result.status = EmailStatus.SENT
      => e.result.attempts = Cardinality(Invocations(e.trace))

\* TRUE when a refusal is the last entry of the trace for its provider
RefusalEndsProvider(trace) ==
  \A j, k \in DOMAIN trace :
    trace[j].outcome = "refused" /\ j < k => trace[k].provider # trace[j].provider

\* TRUE when execution i is about to handle a refusal by the breaker
HandlesRefusal(i) ==
  /\ calls[i].pc = "settled" /\ calls[i].outcome.error = BreakerOpenMessage
  /\ Runs(i)

\* C21: after a breaker-open refusal the execution calls that provider no
\* more, does not sleep, and goes straight on to the next provider, whose
\* attempts start afresh and which is given up only when refused or after
\* maxRetries + 1 failures.
RefusalTakesNoRetryBudget ==
  [][ /\ \A e \in Executions' :
           /\ RefusalEndsProvider(e.trace)
           /\ \A q \in 1..e.providerIndex : DoneWith(e.trace, providers[q])
      /\ \A i \in DOMAIN calls :
           HandlesRefusal(i) =>
             /\ now' = now
             /\ i \in DOMAIN calls' =>
                  /\ calls'[i].pc \in {"inProvider", "settled"}
                  /\ calls'[i].providerIndex = calls[i].providerIndex + 1
                  /\ AddsEntry(i) /\ NewEntry(i).attempt = 1
                  /\ NewEntry(i).provider = providers[calls[i].providerIndex + 2] ]_vars

RefusedThenNextProvider ==
  \E i \in DOMAIN calls : \E k \in DOMAIN calls[i].trace :
    /\ k > 1
    /\ calls[i].trace[k - 1].outcome = "refused"
    /\ calls[i].trace[k].provider # calls[i].trace[k - 1].provider
    /\ calls[i].trace[k].attempt = 1

\* the isAllowed() calls that returned true and whose caller has not yet
\* gone on to attemptSend
PendingAdmits ==
  Cardinality({ i \in DOMAIN calls : calls[i].pc = "awaitAllowed" /\ calls[i].allowed })
  + (IF drain.pc = "awaitAllowed" /\ drain.allowed THEN 1 ELSE 0)

\* the entries the drain worker removes from the queue in this step
Dequeued == IF Len(queue') < Len(queue) THEN Len(queue) - Len(queue') ELSE 0

\* the executions of attemptSend that start in this step
StartsOfAttemptSend ==
  Cardinality({ i \in DOMAIN calls :
                  calls[i].pc = "awaitAllowed" /\ calls[i].allowed /\ Runs(i) })
  + Dequeued

\* the isAllowed() calls that return true in this step
NewAdmits == IF now' = now THEN Len(admissions') - Len(admissions) ELSE 0

\* C22: the drain worker removes an entry only after an isAllowed() of its
\* own returned true, hands it to attemptSend with no further admission
\* check, and removes nothing on a denial; every start of attemptSend uses
\* up one admission, so the starts never outnumber the admissions.
DrainNeverDoubleAdmits ==
  [][ /\ Dequeued > 0 =>
           /\ drain.pc = "awaitAllowed" /\ drain.allowed
           /\ queue' = Tail(queue)
           /\ \E e \in Executions' :
                /\ e.origin = "processQueue"
                /\ e.key = Head(queue).idempotencyKey
      /\ drain.pc = "awaitAllowed" /\ ~drain.allowed => queue' = queue
      /\ StartsOfAttemptSend + PendingAdmits' = PendingAdmits + NewAdmits ]_vars

DrainDispatchedOnAdmit ==
  /\ queue = <<>>
  /\ admissions # <<>> /\ admissions[Len(admissions)] = now
  /\ \E i \in DOMAIN calls :
       calls[i].origin = "processQueue" /\ calls[i].pc = "inProvider"

(***************************************************************************)
(* The queue holds two entries only when three sendEmail calls are made.   *)
(***************************************************************************)
FifoSpec == InitWith(LiveOptions, MaxCalls + 1) /\ [][Next]_vars

\* TRUE when this step starts, from the drain worker, an execution of
\* attemptSend for the queue entry
Dispatches(entry) ==
  \/ \E i \in DOMAIN calls' \ DOMAIN calls :
       /\ calls'[i].origin = "processQueue"
       /\ calls'[i].email = entry.email /\ calls'[i].key = entry.idempotencyKey
  \/ \E r \in returned' \ returned :
       r.origin = "processQueue" /\ r.key = entry.idempotencyKey

\* C23: entries join the queue at its tail and the drain worker dispatches
\* the head, so of two entries the one enqueued first is dispatched first.
FifoDrain ==
  [][ queue' # queue =>
        \/ /\ Len(queue') = Len(queue) + 1
           /\ SubSeq(queue', 1, Len(queue)) = queue
        \/ /\ queue # <<>> /\ queue' = Tail(queue)
           /\ Dispatches(Head(queue)) ]_vars

SecondEntryWaitsItsTurn ==
  /\ Len(queue) = 1
  /\ \E i \in DOMAIN calls :
       /\ calls[i].origin = "processQueue" /\ calls[i].pc = "inProvider"
       /\ calls[i].key # queue[1].idempotencyKey
  /\ \E r \in returned :
       r.result.status = EmailStatus.QUEUED /\ r.key = queue[1].idempotencyKey

\* TRUE when this step is the completion, with the outcome given, of an
\* invocation wrapped by the breaker of the provider
Completes(name, outcome) ==
  \E i \in DOMAIN calls \cap DOMAIN calls' :
    /\ calls[i].pc = "inProvider" /\ calls'[i].pc = "settled"
    /\ providers[calls[i].providerIndex + 1] = name
    /\ calls'[i].trace[Len(calls'[i].trace)].outcome = outcome

\* C24: a breaker's failureCount counts the wrapped invocations that failed
\* since the last one that succeeded: a failure adds one and, when the count
\* reaches the threshold or more, opens the breaker until now + timeout; a
\* success sets the count to 0 and the state to CLOSED; nothing else changes
\* the count.
BreakerCounting ==
  [][ \A name \in Range(providers) :
        LET cb == circuitBreakers[name]
            after == circuitBreakers'[name] IN
        /\ Completes(name, "failure") =>
             /\ after.failureCount = cb.failureCount + 1
             /\ after.failureCount >= cb.threshold =>
                  /\ after.state = CircuitState.OPEN
                  /\ after.nextAttempt = now + cb.timeout
        /\ Completes(name, "success") =>
             after.failureCount = 0 /\ after.state = CircuitState.CLOSED
        /\ ~Completes(name, "failure") /\ ~Completes(name, "success") =>
             after.failureCount = cb.failureCount ]_vars

ResetAfterFailures ==
  \E name \in Range(providers) :
    /\ circuitBreakers[name].failureCount = 0
    /\ \E e \in Executions :
         \E k \in DOMAIN e.trace :
           /\ k > 1
           /\ e.trace[k].provider = name /\ e.trace[k].outcome = "success"
           /\ e.trace[k - 1].provider = name /\ e.trace[k - 1].outcome = "failure"

\* C25: a breaker leaves OPEN only for HALF_OPEN, and only when a call
\* arrives at or after nextAttempt; an OPEN breaker never becomes CLOSED
\* before its cooldown has elapsed.
OpenLeavesOnlyToHalfOpen ==
  [][ \A name \in Range(providers) :
        LET cb == circuitBreakers[name]
            after == circuitBreakers'[name] IN
        cb.state = CircuitState.OPEN /\ after.state # CircuitState.OPEN =>
          /\ after.state = CircuitState.HALF_OPEN
          /\ now >= cb.nextAttempt ]_vars

(***************************************************************************)
(* calculateBackoffDelay on its own: services built with several baseDelay *)
(* and maxDelay options, and the caller asking for the delay of an attempt *)
(* as src/email-service.test.js does.  Delays are in units of              *)
(* 1 / JitterScale milliseconds, so that the arithmetic is exact.          *)
(***************************************************************************)
BaseDelays == {0, 100, OptBaseDelay}

MaxDelays == {0, 150, OptMaxDelay, DefaultMaxDelay}

BackoffOptions ==
  [maxRetries : {MaxRetriesOption}, providers : {MaxProviders - 1},
   baseDelay : BaseDelays, maxDelay : MaxDelays]

\* this.baseDelay and this.maxDelay after the constructor
BaseDelayOf(opts) == OrDefault(opts.baseDelay, DefaultBaseDelay)

MaxDelayOf(opts) == OrDefault(opts.maxDelay, DefaultMaxDelay)

\* service.calculateBackoffDelay(attempt), called from outside, with
\* Math.random() = r / RandomSteps
Backoff(attempt, r) ==
  /\ budget > 0
  /\ budget' = budget - 1
  /\ returned' = returned \cup
       {[origin |-> "calculateBackoffDelay", attempt |-> attempt, random |-> r,
         delay |-> BackoffDelay(BaseDelayOf(options), MaxDelayOf(options),
                                attempt, r)]}
  /\ UNCHANGED <<options, providers, maxRetries, now, requests, circuitBreakers,
                 sentEmails, emailStatuses, queue, processing, drain, calls,
                 microtasks, events, deliveries, admissions>>

BackoffNext ==
  \E attempt \in 0..MaxAttempt : \E r \in 0..(RandomSteps - 1) : Backoff(attempt, r)

BackoffSpec == InitWith(BackoffOptions, MaxCalls) /\ [][BackoffNext]_vars

\* C26: the delay of attempt a is never more than maxDelay, is at least
\* min(maxDelay, baseDelay * 2^a) and is less than 1.1 * baseDelay * 2^a,
\* whatever the jitter drawn.
BackoffBounds ==
  \A b \in returned :
    LET base == BaseDelayOf(options)
        max == MaxDelayOf(options)
        exponential == base * Pow2(b.attempt) IN
    /\ b.delay <= max * JitterScale
    /\ b.delay >= Min(max, exponential) * JitterScale
    /\ 10 * b.delay < 11 * exponential * JitterScale

ClampedAndJitteredDelays ==
  \E b, c \in returned :
    /\ b.random > 0 /\ b.delay > BaseDelayOf(options) * Pow2(b.attempt) * JitterScale
    /\ b.delay < MaxDelayOf(options) * JitterScale
    /\ c.attempt > 0 /\ c.delay = MaxDelayOf(options) * JitterScale
    /\ BaseDelayOf(options) * Pow2(c.attempt) > MaxDelayOf(options)

\* C27: a breaker is CLOSED exactly when its failureCount is below its
\* threshold; hence an invocation that fails while the breaker is HALF_OPEN
\* returns it to OPEN with nextAttempt = now + timeout, and it never stays
\* HALF_OPEN after a failure.
ClosedIffBelowThreshold ==
  /\ [](\A name \in Range(providers) :
          LET cb == circuitBreakers[name] IN
          cb.state = CircuitState.CLOSED <=> cb.failureCount < cb.threshold)
  /\ [][ \A name \in Range(providers) :
           LET cb == circuitBreakers[name]
               after == circuitBreakers'[name] IN
           cb.state = CircuitState.HALF_OPEN /\ Completes(name, "failure") =>
             /\ after.state = CircuitState.OPEN
             /\ after.nextAttempt = now + cb.timeout ]_vars

HalfOpenProbeInFlight ==
  \E name \in Range(providers) :
    /\ circuitBreakers[name].state = CircuitState.HALF_OPEN
    /\ circuitBreakers[name].failureCount >= circuitBreakers[name].threshold
    /\ Idle
    /\ \E i \in DOMAIN calls :
         /\ calls[i].pc = "inProvider"
         /\ providers[calls[i].providerIndex + 1] = name

\* C28: a breaker-open refusal leaves the breaker as it was: failureCount,
\* state and nextAttempt keep their values when call() refuses, and while
\* the caller handles the refusal.
RefusalLeavesBreakerUnchanged ==
  [][ /\ \A i \in DOMAIN calls' :
           AddsEntry(i) /\ NewEntry(i).outcome = "refused" =>
             LET cb == circuitBreakers[NewEntry(i).provider]
                 after == circuitBreakers'[NewEntry(i).provider] IN
             /\ cb.state = CircuitState.OPEN /\ now < cb.nextAttempt
             /\ after.failureCount = cb.failureCount
             /\ after.state = cb.state
             /\ after.nextAttempt = cb.nextAttempt
      /\ \A i \in DOMAIN calls :
           HandlesRefusal(i) =>
             LET name == providers[calls[i].providerIndex + 1] IN
             circuitBreakers'[name] = circuitBreakers[name] ]_vars

RefusedLongAfterOpening ==
  \E i \in DOMAIN calls :
    LET cb == circuitBreakers[providers[calls[i].providerIndex + 1]] IN
    /\ calls[i].pc = "settled"
    /\ calls[i].outcome.error = BreakerOpenMessage
    /\ cb.state = CircuitState.OPEN
    /\ cb.failureCount = cb.threshold
    /\ now < cb.nextAttempt /\ cb.nextAttempt < now + cb.timeout

\* TRUE of a settled execution that ran attemptSend
RanAttemptSend(e) ==
  /\ e.pc \in {"done", "rejected"}
  /\ \/ e.origin = "processQueue"
     \/ /\ e.origin = "sendEmail" /\ ~e.cacheHit
        /\ e.pc = "done" => e.result.status # EmailStatus.QUEUED

\* C29: an attemptSend in which no provider succeeded, the provider list
\* being empty or not, resolves with a FailureResult after emitting
\* "failed"; it does not reject.
NoSuccessResolvesFailed ==
  \A e \in Executions :
    RanAttemptSend(e) /\ (\A k \in DOMAIN e.trace : e.trace[k].outcome # "success") =>
      /\ e.pc = "done"
      /\ e.result.status = EmailStatus.FAILED
      /\ EventsOf(e.emitted, {"failed"}) # <<>>

====
